---- MODULE Spec2Model ----
(***************************************************************************)
(* Job queue template: the SQLite job store (jobs, job_steps), the ORM     *)
(* operations on it, the example scripts that drive the store, and the     *)
(* candidate entry points claimNextJob / processJob as they stand in the   *)
(* source (their bodies are `throw new Error('Not implemented')`).         *)
(***************************************************************************)
EXTENDS Integers, Sequences, FiniteSets, Bags, TLC

(* ---- bounds ---------------------------------------------------------- *)
MaxJobs == 2
NumCallers == 3
MaxProcCalls == 3
MaxEmails == 2
NumMailCalls == 2
NumSweepers == 2
NumTxCalls == 2
MaxKeyJobId == 11
MaxStepLen == 2
NumUpdaters == 3
NumWorkers == 2
MaxIterations == 2

(* ---- enums of lib/orm.ts -------------------------------------------- *)
Pending == 0
Processing == 1
Failed == 2
Completed == 3

SendEmail == 0
Analyze == 1
TakeAction == 2

StepCompleted == 2

JobStepNames == {SendEmail, Analyze, TakeAction}

WORKER_ID == "worker-1"

(* A nullable column is a sequence of length at most one; Now stands for the
   value of new Date() (no modelled operation compares timestamps). *)
NULL == <<>>
Some(v) == <<v>>
Now == "now"

VARIABLES
  jobs,      \* table jobs: row id -> row
  jobSteps,  \* table job_steps: bag of rows (job_id, step_name, status)
  ret,       \* error raised by the last INSERT INTO job_steps, or "none"
  ex1,       \* position of example1_BasicCRUD and the job it created
  ex10,      \* position of example10_JobSteps and the job it created
  claimM,    \* Pending jobs when the concurrent claim calls were issued
  claim,     \* outcome of each of the concurrent claimNextJob calls
  proc,      \* the job snapshot handed to processJob and the outcome of each call
  send,      \* the last sendEmailStep call: job, what the mail API does, outcome
  bulk,      \* the last createCampaignJobs call: addresses and outcome
  mail,      \* the sendEmail calls on the mail API mock and where each stands
  cache,     \* idempotency cache of the mail API mock: key -> message id
  cls,       \* the last error a caller classified, and the classifier's answers
  sweepM,    \* stalled jobs when the recovery sweeps were started
  sweep,     \* outcome of each of the recoverStalledJobs calls
  transactionDepth,  \* the counter of lib/database.ts
  txOpen,    \* the jobs table as it was at BEGIN, while a transaction is open
  txCall,    \* the claimJob calls of example11 and where each stands
  ex3,       \* position of example3_Transactions and the rows before it
  keyed,     \* the last two generateIdempotencyKey calls: arguments and key
  stepped,   \* the last two getNextStep calls: argument and result
  upd,       \* the last filter(conditions).update(values) call and its result
  cas,       \* the concurrent conditional updates of one row and their results
  work       \* the worker loops and the recovery sweeps: iterations made

stepVars == <<send, bulk>>
mailVars == <<mail, cache, cls>>
queueVars == <<ret, ex1, ex10, claimM, claim, proc>>
sweepVars == <<sweepM, sweep>>
txVars == <<transactionDepth, txOpen, txCall, ex3>>
moreVars == <<stepped, upd, cas, work>>
helpVars == <<keyed, moreVars>>
restVars == <<sweepVars, txVars, helpVars>>

vars == <<jobs, jobSteps, ret, ex1, ex10, claimM, claim, proc, send, bulk, mail, cache, cls,
          sweepM, sweep, transactionDepth, txOpen, txCall, ex3, keyed,
          moreVars>>

JobIds == DOMAIN jobs
Callers == 1..NumCallers

(* ---- store: jobs ----------------------------------------------------- *)

(* A customer address is kept as the set of the characters of it that
   sendEmail's validation looks for. *)
ValidEmail == { "@", "." }
BadEmail == {}

(* Row inserted by JobModel.create({campaignId, customerEmail, currentStep,
   status, retryCount}); the columns not given take the schema defaults. *)
JobRow(email, st, cur, retry) ==
  [ customerEmail |-> email,
    currentStep |-> cur,
    status |-> st,
    workerId |-> NULL,
    retryCount |-> retry,
    startedAt |-> NULL,
    completedAt |-> NULL,
    errorMessage |-> NULL,
    scheduledFor |-> NULL,
    lastHeartbeat |-> NULL ]

(* The row of a job created with a well-formed address ('test@example.com'). *)
NewJobRow(st, cur, retry) == JobRow(ValidEmail, st, cur, retry)

(* BaseModel.save, insert branch: the row gets the next AUTOINCREMENT id. *)
JobModel_create(js, st, cur, retry) == Append(js, NewJobRow(st, cur, retry))

(* QuerySet.update over filter({id}): SET the given columns WHERE id = ?. *)
QuerySet_update(js, id, values) ==
  [ j \in DOMAIN js |->
      IF j = id
      THEN [ f \in DOMAIN js[j] |->
               IF f \in DOMAIN values THEN values[f] ELSE js[j][f] ]
      ELSE js[j] ]

(* buildWhere: `column = ?` for every filter condition, joined by AND; the
   id is the row's position in the table. *)
Matches(js, j, conditions) ==
  \A f \in DOMAIN conditions :
    IF f = "id" THEN j = conditions[f] ELSE js[j][f] = conditions[f]

(* QuerySet.filter(conditions).update(values): with no value to set, 0 and no
   statement; otherwise one UPDATE .. SET .. WHERE statement, whose result is
   the table after it and info.changes, the number of rows the WHERE clause
   selected. *)
QuerySet_filter_update_IdOnly(js, conditions, values) ==
  IF DOMAIN values = {}
  THEN [ jobs |-> js, affectedRows |-> 0 ]
  ELSE LET hit == { j \in DOMAIN js :
                     "id" \in DOMAIN conditions => j = conditions["id"] }
       IN [ jobs |-> [ j \in DOMAIN js |->
                        IF j \in hit
                        THEN [ f \in DOMAIN js[j] |->
                                 IF f \in DOMAIN values THEN values[f] ELSE js[j][f] ]
                        ELSE js[j] ],
            affectedRows |-> Cardinality(hit) ]

QuerySet_filter_update(js, conditions, values) ==
  IF DOMAIN values = {}
  THEN [ jobs |-> js, affectedRows |-> 0 ]
  ELSE LET hit == { j \in DOMAIN js : Matches(js, j, conditions) }
       IN [ jobs |-> [ j \in DOMAIN js |->
                        IF j \in hit
                        THEN [ f \in DOMAIN js[j] |->
                                 IF f \in DOMAIN values THEN values[f] ELSE js[j][f] ]
                        ELSE js[j] ],
            affectedRows |-> Cardinality(hit) ]

(* JobModel.filter({ status: JobStatus.Pending }).count(): the jobs a claim
   can take (scheduled_for is NULL in every row: no operation sets it). *)
PendingCount == Cardinality({ j \in JobIds : jobs[j].status = Pending })

(* ORDER BY created_at ASC, id ASC over the Pending rows: created_at is the
   time of the insert (or, in testClaimJobPriority, an earlier time given to
   the row inserted first), so the oldest Pending row is the one with the
   smallest id.  0 when no row is Pending. *)
OldestPending ==
  IF PendingCount = 0 THEN 0
  ELSE CHOOSE j \in JobIds :
         /\ jobs[j].status = Pending
         /\ \A k \in JobIds : jobs[k].status = Pending => j <= k

(* ---- store: job_steps ------------------------------------------------ *)

(* A row of job_steps. The table is a bag of rows: the row id is left out,
   two rows of the same (job_id, step_name) are two copies. *)
StepRow(j, s) == [ jobId |-> j, stepName |-> s, status |-> StepCompleted ]

(* SELECT COUNT FROM job_steps WHERE job_id = j AND step_name = s *)
StepCount(ss, j, s) == CopiesIn(StepRow(j, s), ss)

HasStep(ss, j, s) == StepCount(ss, j, s) > 0

(* SELECT COUNT FROM job_steps WHERE job_id = j *)
StepRowsOf(ss, j) ==
  StepCount(ss, j, SendEmail) + StepCount(ss, j, Analyze) + StepCount(ss, j, TakeAction)

(* INSERT INTO job_steps through executeSql: FOREIGN KEY (job_id) and
   UNIQUE(job_id, step_name) are checked by the store; a unique failure is
   rethrown with code UNIQUE_VIOLATION, any other error as it is. *)
InsertStepError_NoUnique(ss, j, s) ==
  IF j \notin JobIds THEN "FOREIGN KEY constraint failed"
  ELSE "none"

InsertStepError(ss, j, s) ==
  IF j \notin JobIds THEN "FOREIGN KEY constraint failed"
  ELSE IF HasStep(ss, j, s) THEN "UNIQUE_VIOLATION"
  ELSE "none"

InsertStepRows(ss, j, s) ==
  IF InsertStepError(ss, j, s) = "none"
  THEN ss (+) SetToBag({ StepRow(j, s) })
  ELSE ss

(* ---- candidate entry points (bodies as in the source) ---------------- *)

(* claimNextJob(): `throw new Error('Not implemented')`; the store is not
   touched. *)
claimNextJob(js) ==
  [ st |-> "threw", job |-> 0, jobs |-> js ]

(* processJob(job): `throw new Error('Not implemented')`. *)
processJob(js, ss, j) ==
  [ st |-> "threw", jobs |-> js, jobSteps |-> ss ]

(* sendEmailStep(job): `throw new Error('Not implemented')`; sendEmail is
   not called, so what the mail API would do (m) plays no part. *)
sendEmailStep(js, ss, j, m) ==
  [ st |-> "threw", jobs |-> js, jobSteps |-> ss ]

(* createCampaignJobs(campaignId, customerEmails):
   `throw new Error('Not implemented')`; no row is inserted. *)
createCampaignJobs(js, customerEmails) ==
  [ st |-> "threw", count |-> 0, jobs |-> js ]

(* recoverStalledJobs(timeoutSeconds = 300):
   `throw new Error('Not implemented')`; no row is read or written. *)
recoverStalledJobs(js, timeoutSeconds) ==
  [ st |-> "threw", count |-> 0, jobs |-> js ]

(* ---- error classes and retry helpers --------------------------------- *)

ErrorClasses ==
  { "Error", "SendGridError", "RateLimitError", "InvalidEmailError",
    "TimeoutError", "SalesforceError", "SentimentAPIError" }

(* class X extends Y *)
Extends(class) ==
  IF class \in { "RateLimitError", "InvalidEmailError" } THEN "SendGridError"
  ELSE "Error"

(* The assignments to this.name while `new class(...)` runs: the constructor
   of the superclass first, then `this.name = '<class>'`. *)
RECURSIVE NameAssignments(_)
NameAssignments(class) ==
  IF class = "Error" THEN << "Error" >>
  ELSE Append(NameAssignments(Extends(class)), class)

(* The error object a `throw new class(...)` raises. *)
NewError(class) ==
  [ class |-> class,
    name |-> NameAssignments(class)[Len(NameAssignments(class))] ]

isTransientError_NoTimeout(error) ==
  error.name = "RateLimitError"

isTransientError(error) ==
  error.name = "RateLimitError" \/ error.name = "TimeoutError"

isPermanentError_NotTransient(error) ==
  error.name # "RateLimitError" /\ error.name # "TimeoutError"

isPermanentError(error) ==
  error.name = "InvalidEmailError"

(* A string is the sequence of its characters.  String(n) of a job id: its
   decimal digits. *)
DigitChars == << "0", "1", "2", "3", "4", "5", "6", "7", "8", "9" >>

RECURSIVE StringOf(_)
StringOf(n) ==
  IF n < 10 THEN << DigitChars[n + 1] >>
  ELSE Append(StringOf(n \div 10), DigitChars[(n % 10) + 1])

(* WORKFLOW_STEPS = ['send_email', 'analyze', 'take_action'] *)
WORKFLOW_STEPS ==
  << << "s", "e", "n", "d", "_", "e", "m", "a", "i", "l" >>,
     << "a", "n", "a", "l", "y", "z", "e" >>,
     << "t", "a", "k", "e", "_", "a", "c", "t", "i", "o", "n" >> >>

(* `${jobId}-${step}` *)
generateIdempotencyKey_NoSeparator(jobId, step) == StringOf(jobId) \o step

generateIdempotencyKey(jobId, step) == StringOf(jobId) \o << "-" >> \o step

(* Array.prototype.indexOf: the 0-based position of the first element equal
   to x, -1 if there is none. *)
indexOf(arr, x) ==
  IF \E i \in 1..Len(arr) : arr[i] = x
  THEN (CHOOSE i \in 1..Len(arr) :
          arr[i] = x /\ \A k \in 1..(i - 1) : arr[k] # x) - 1
  ELSE -1

(* getNextStep(current): the step after current in WORKFLOW_STEPS, null for
   the last step and for a string that is no step. *)
getNextStep_SameStep(current) ==
  LET index == indexOf(WORKFLOW_STEPS, current)
  IN IF index >= 0 /\ index < Len(WORKFLOW_STEPS) - 1
     THEN Some(WORKFLOW_STEPS[index + 1])
     ELSE NULL

getNextStep(current) ==
  LET index == indexOf(WORKFLOW_STEPS, current)
  IN IF index >= 0 /\ index < Len(WORKFLOW_STEPS) - 1
     THEN Some(WORKFLOW_STEPS[(index + 1) + 1])
     ELSE NULL

(* ---- mail API mock: sendEmail --------------------------------------- *)

MailCallers == 1..NumMailCalls

(* The idempotency keys the callers pass: those of the send_email step of
   two jobs. *)
MailKeys ==
  { generateIdempotencyKey(1, WORKFLOW_STEPS[1]),
    generateIdempotencyKey(2, WORKFLOW_STEPS[1]) }

(* to.includes(ch) *)
Includes(to, ch) == ch \in to

(* What sendEmail does once its latency sleep is over: the address is
   validated first; a well-formed address then meets the rate limiter and the
   random failures (timeout, rate limit, internal error) or is sent. *)
SendEmailOutcomes(to) ==
  IF ~Includes(to, "@") \/ ~Includes(to, ".")
  THEN { "InvalidEmailError" }
  ELSE { "RateLimitError", "TimeoutError", "SendGridError", "sent" }

(* generateMessageId(): an id no earlier send returned. *)
NextMessageId ==
  1 + Cardinality({ c \in MailCallers : mail[c].pc = "sent" })

(* The idempotency cache when a sendEmail call ends with outcome o: every
   throw of sendEmail comes before rateLimiter.cacheIdempotency(key, id),
   which only a call that got its message id reaches. *)
CacheAfter_AnyOutcome(o, key, messageId) ==
  [ cache EXCEPT ![key] = messageId ]

CacheAfter(o, key, messageId) ==
  IF o = "sent" THEN [ cache EXCEPT ![key] = messageId ] ELSE cache

(* The errors a caller of the external APIs can catch: those sendEmail has
   thrown, those of the Salesforce and sentiment mocks, and the plain Error
   of an unimplemented entry point. *)
Catchable ==
  { mail[c].res : c \in { d \in MailCallers : mail[d].pc = "threw" } }
    \cup { "SalesforceError", "SentimentAPIError", "Error" }

(* Placeholder for the snapshot before any processJob call (proc.job = 0). *)
NoSnapshot == [ status |-> Pending, currentStep |-> SendEmail ]

(* ---- initial state ---------------------------------------------------- *)

Init ==
  /\ jobs = <<>>
  /\ jobSteps = EmptyBag
  /\ ret = "none"
  /\ ex1 = [ pc |-> "create", job |-> 0 ]
  /\ ex10 = [ pc |-> "create", job |-> 0 ]
  /\ claimM = 0
  /\ claim = [ c \in Callers |-> [ st |-> "idle", job |-> 0 ] ]
  /\ proc = [ job |-> 0, snap |-> NoSnapshot, log |-> <<>> ]
  /\ send = [ job |-> 0, mail |-> "none", st |-> "none" ]
  /\ bulk = [ emails |-> <<>>, st |-> "none", count |-> 0 ]
  /\ mail = [ c \in MailCallers |->
               [ pc |-> "idle", to |-> BadEmail, key |-> <<>>, res |-> "none" ] ]
  /\ cache = [ k \in MailKeys |-> 0 ]
  /\ cls = [ class |-> "none", transient |-> FALSE, permanent |-> FALSE ]
  /\ sweepM = 0
  /\ sweep = [ w \in 1..NumSweepers |-> [ st |-> "idle", count |-> 0 ] ]
  /\ transactionDepth = 0
  /\ txOpen = NULL
  /\ txCall = [ c \in 1..NumTxCalls |->
                 [ pc |-> "idle", job |-> 0, workerId |-> NULL ] ]
  /\ ex3 = [ pc |-> "begin", base |-> 0 ]
  /\ keyed = << >>
  /\ stepped = << >>
  /\ upd = [ conditions |-> << >>, values |-> << >>, n |-> 0 ]
  /\ cas = [ target |-> 0, pending |-> FALSE, res |-> [ c \in 1..NumUpdaters |-> -1 ] ]
  /\ work = [ iterations |-> [ w \in 1..NumWorkers |-> 0 ], sweeps |-> 0 ]

(* The concurrent claim calls are issued by one synchronous Array.from; no
   fixture is created between the calls. *)
ClaimsInFlight == \E c \in Callers : claim[c].st = "calling"

(* ---- actions ---------------------------------------------------------- *)

(* setupTestData / example2_QueryBuilder: fixture rows at send_email, either
   Pending or (example2) Completed. *)
CreateJob(st) ==
  /\ Len(jobs) < MaxJobs
  /\ ~ClaimsInFlight
  /\ jobs' = JobModel_create(jobs, st, SendEmail, 0)
  /\ UNCHANGED <<jobSteps, ret, ex1, ex10, claimM, claim, proc>>
  /\ UNCHANGED <<stepVars, mailVars, restVars>>

(* Steps a caller other than example10 records: the first step, the one every
   job starts at. *)
WriterSteps == { SendEmail }

(* JobStepModel.create({jobId, stepName, status: Completed}) by any caller. *)
JobStepModel_create(j, s) ==
  /\ jobSteps' = InsertStepRows(jobSteps, j, s)
  /\ ret' = InsertStepError(jobSteps, j, s)
  /\ UNCHANGED <<jobs, ex1, ex10, claimM, claim, proc>>
  /\ UNCHANGED <<stepVars, mailVars, restVars>>

(* example1_BasicCRUD: create a job, then mark it Processing for worker-1. *)
Example1 ==
  /\ ~ClaimsInFlight
  /\ \/ /\ ex1.pc = "create"
        /\ Len(jobs) < MaxJobs
        /\ jobs' = JobModel_create(jobs, Pending, SendEmail, 0)
        /\ ex1' = [ pc |-> "update", job |-> Len(jobs) + 1 ]
     \/ /\ ex1.pc = "update"
        /\ jobs' = QuerySet_update(jobs, ex1.job,
                     [ status |-> Processing, workerId |-> Some(WORKER_ID) ])
        /\ ex1' = [ ex1 EXCEPT !.pc = "done" ]
  /\ UNCHANGED <<jobSteps, ret, ex10, claimM, claim, proc>>
  /\ UNCHANGED <<stepVars, mailVars, restVars>>

(* The values of the two job updates of example10_JobSteps. *)
Ex10AdvanceValues_Skip == [ currentStep |-> TakeAction, status |-> Pending ]

Ex10AdvanceValues == [ currentStep |-> Analyze, status |-> Pending ]

Ex10CompleteValues == [ status |-> Completed, completedAt |-> Some(Now) ]

(* The ledger write of example10 for step s; an error ends the script. *)
Ex10Record(s, next) ==
  /\ jobSteps' = InsertStepRows(jobSteps, ex10.job, s)
  /\ ret' = InsertStepError(jobSteps, ex10.job, s)
  /\ ex10' = [ ex10 EXCEPT !.pc =
                 IF InsertStepError(jobSteps, ex10.job, s) = "none"
                 THEN next ELSE "failed" ]
  /\ UNCHANGED jobs

Ex10Update(values, next) ==
  /\ jobs' = QuerySet_update(jobs, ex10.job, values)
  /\ ex10' = [ ex10 EXCEPT !.pc = next ]
  /\ UNCHANGED <<jobSteps, ret>>

(* example10_JobSteps: record send_email, advance the job to analyze, record
   analyze and take_action, mark the job Completed. *)
Example10 ==
  /\ ~ClaimsInFlight
  /\ \/ /\ ex10.pc = "create"
        /\ Len(jobs) < MaxJobs
        /\ jobs' = JobModel_create(jobs, Pending, SendEmail, 0)
        /\ ex10' = [ pc |-> "record1", job |-> Len(jobs) + 1 ]
        /\ UNCHANGED <<jobSteps, ret>>
     \/ ex10.pc = "record1" /\ Ex10Record(SendEmail, "advance")
     \/ ex10.pc = "advance" /\ Ex10Update(Ex10AdvanceValues, "record2")
     \/ ex10.pc = "record2" /\ Ex10Record(Analyze, "record3")
     \/ ex10.pc = "record3" /\ Ex10Record(TakeAction, "complete")
     \/ ex10.pc = "complete" /\ Ex10Update(Ex10CompleteValues, "done")
  /\ UNCHANGED <<ex1, claimM, claim, proc>>
  /\ UNCHANGED <<stepVars, mailVars, restVars>>

(* Promise.all(Array.from({length: N}, () => claimNextJob())): the N calls
   are issued together against the jobs Pending at that moment. *)
StartClaims ==
  /\ \A c \in Callers : claim[c].st = "idle"
  /\ claimM' = PendingCount
  /\ claim' = [ c \in Callers |-> [ st |-> "calling", job |-> 0 ] ]
  /\ UNCHANGED <<jobs, jobSteps, ret, ex1, ex10, proc>>
  /\ UNCHANGED <<stepVars, mailVars, restVars>>

(* One claimNextJob() call runs; Array.from makes the calls in index order. *)
ClaimNextJob(c) ==
  /\ claim[c].st = "calling"
  /\ \A d \in Callers : d < c => claim[d].st # "calling"
  /\ LET r == claimNextJob(jobs)
     IN /\ claim' = [ claim EXCEPT ![c] = [ st |-> r.st, job |-> r.job ] ]
        /\ jobs' = r.jobs
  /\ UNCHANGED <<jobSteps, ret, ex1, ex10, claimM, proc>>
  /\ UNCHANGED <<stepVars, mailVars, restVars>>

(* The fields of the Job object a caller holds for job j. *)
Snapshot(j) == [ status |-> jobs[j].status, currentStep |-> jobs[j].currentStep ]

(* processJob(job) called with a snapshot of job j; the caller keeps calling
   it for the same job (successively, or three at once in Promise.all). *)
ProcessJob(j) ==
  /\ j \in JobIds
  /\ ~ClaimsInFlight
  /\ proc.job \in {0, j}
  /\ Len(proc.log) < MaxProcCalls
  /\ LET r == processJob(jobs, jobSteps, j)
     IN /\ proc' = [ job |-> j,
                      snap |-> IF proc.job = 0 THEN Snapshot(j) ELSE proc.snap,
                      log |-> Append(proc.log, r.st) ]
        /\ jobs' = r.jobs
        /\ jobSteps' = r.jobSteps
  /\ UNCHANGED <<ret, ex1, ex10, claimM, claim>>
  /\ UNCHANGED <<stepVars, mailVars, restVars>>

Next ==
  \/ \E st \in {Pending, Completed} : CreateJob(st)
  \/ \E j \in 1..MaxJobs, s \in WriterSteps : JobStepModel_create(j, s)
  \/ Example1
  \/ Example10
  \/ StartClaims
  \/ \E c \in Callers : ClaimNextJob(c)
  \/ \E j \in 1..MaxJobs : ProcessJob(j)

Spec == Init /\ [][Next]_vars

(* ---- the step and bulk tests of the harness --------------------------- *)

(* retryCount of the job testJobMaxRetries creates ("after max retries"). *)
HighRetryCount == 10

(* JobModel.create of the step tests: a Pending job at send_email with a
   well-formed or a malformed address ('not-an-email', 'bad') and
   retryCount 0, or (testJobMaxRetries) retryCount 10. *)
CreateFixture(email, retry) ==
  /\ Len(jobs) < MaxJobs
  /\ jobs' = Append(jobs, JobRow(email, Pending, SendEmail, retry))
  /\ UNCHANGED <<jobSteps, queueVars, restVars, stepVars, mailVars>>

(* sendEmailStep(job) for job j; m is what sendEmail would do for the job's
   address when called by the step. *)
SendEmailStep(j, m) ==
  /\ j \in JobIds
  /\ m \in SendEmailOutcomes(jobs[j].customerEmail)
  /\ LET r == sendEmailStep(jobs, jobSteps, j, m)
     IN /\ send' = [ job |-> j, mail |-> m, st |-> r.st ]
        /\ jobs' = r.jobs
        /\ jobSteps' = r.jobSteps
  /\ UNCHANGED <<queueVars, restVars, bulk, mailVars>>

(* The address lists the bulk tests pass (the empty list included). *)
EmailLists ==
  UNION { [ 1..n -> { ValidEmail, BadEmail } ] : n \in 0..MaxEmails }

(* createCampaignJobs(campaignId, emails) *)
CreateCampaignJobs(emails) ==
  /\ Len(jobs) + Len(emails) <= MaxJobs
  /\ LET r == createCampaignJobs(jobs, emails)
     IN /\ bulk' = [ emails |-> emails, st |-> r.st, count |-> r.count ]
        /\ jobs' = r.jobs
  /\ UNCHANGED <<jobSteps, queueVars, restVars, send, mailVars>>

NextSteps ==
  \/ \E email \in { ValidEmail, BadEmail }, retry \in { 0, HighRetryCount } :
       CreateFixture(email, retry)
  \/ \E j \in 1..MaxJobs,
        m \in SendEmailOutcomes(ValidEmail) \cup SendEmailOutcomes(BadEmail) :
       SendEmailStep(j, m)
  \/ \E emails \in EmailLists : CreateCampaignJobs(emails)

SpecSteps == Init /\ [][NextSteps]_vars

(* ---- the callers of the mail API -------------------------------------- *)

(* sendEmail(to, body, key) up to its first await: a cached key returns the
   cached message id (after a short sleep that touches nothing), any other
   call goes to sleep for the configured latency.  The calls are issued in
   index order. *)
SendEmail_call(c, to, key) ==
  /\ mail[c].pc = "idle"
  /\ \A d \in MailCallers : d < c => mail[d].pc # "idle"
  /\ mail' = [ mail EXCEPT ![c] =
                 IF cache[key] # 0
                 THEN [ pc |-> "cached", to |-> to, key |-> key, res |-> cache[key] ]
                 ELSE [ pc |-> "sleeping", to |-> to, key |-> key, res |-> "none" ] ]
  /\ UNCHANGED <<jobs, jobSteps, queueVars, restVars, stepVars, cache, cls>>

(* sendEmail after the latency sleep: validation, rate limit, random
   failure, or a new message id that is cached under the key. *)
SendEmail_resume(c) ==
  /\ mail[c].pc = "sleeping"
  /\ \E o \in SendEmailOutcomes(mail[c].to) :
       /\ mail' = IF o = "sent"
                  THEN [ mail EXCEPT ![c].pc = "sent", ![c].res = NextMessageId ]
                  ELSE [ mail EXCEPT ![c].pc = "threw", ![c].res = o ]
       /\ cache' = CacheAfter(o, mail[c].key, NextMessageId)
  /\ UNCHANGED <<jobs, jobSteps, queueVars, restVars, stepVars, cls>>

(* A caller catches an error of class e and asks both classifiers. *)
Classify(e) ==
  /\ e \in Catchable
  /\ cls' = [ class |-> e,
              transient |-> isTransientError(NewError(e)),
              permanent |-> isPermanentError(NewError(e)) ]
  /\ UNCHANGED <<jobs, jobSteps, queueVars, restVars, stepVars, mail, cache>>

NextMail ==
  \/ \E c \in MailCallers, to \in { ValidEmail, BadEmail }, key \in MailKeys :
       SendEmail_call(c, to, key)
  \/ \E c \in MailCallers : SendEmail_resume(c)
  \/ \E e \in ErrorClasses : Classify(e)

SpecMail == Init /\ [][NextMail]_vars

(* ---- stall recovery sweeps -------------------------------------------- *)

Sweepers == 1..NumSweepers

(* timeoutSeconds: number = 300 *)
DefaultTimeoutSeconds == 300

(* The time a job's lease dates from: last_heartbeat, or started_at if no
   heartbeat was recorded. *)
LeaseTime(row) ==
  IF row.lastHeartbeat # NULL THEN row.lastHeartbeat ELSE row.startedAt

(* "older than timeoutSeconds": a lease time exists and is not the present
   moment (the timeout is positive). *)
OlderThanTimeout(t) == t # NULL /\ t # Some(Now)

(* The stalled jobs of the doc comment of recoverStalledJobs: status
   'processing' and a lease older than the timeout. *)
Stalled(js) ==
  { j \in DOMAIN js :
      js[j].status = Processing /\ OlderThanTimeout(LeaseTime(js[j])) }

SweepsInFlight == \E w \in Sweepers : sweep[w].st = "calling"

(* Several cleanup processes call recoverStalledJobs at the same moment. *)
StartSweeps ==
  /\ \A w \in Sweepers : sweep[w].st = "idle"
  /\ sweepM' = Cardinality(Stalled(jobs))
  /\ sweep' = [ w \in Sweepers |-> [ st |-> "calling", count |-> 0 ] ]
  /\ UNCHANGED <<jobs, jobSteps, queueVars, stepVars, mailVars, txVars, helpVars>>

(* One recoverStalledJobs() call runs. *)
RecoverStalledJobs(w) ==
  /\ sweep[w].st = "calling"
  /\ LET r == recoverStalledJobs(jobs, DefaultTimeoutSeconds)
     IN /\ sweep' = [ sweep EXCEPT ![w] = [ st |-> r.st, count |-> r.count ] ]
        /\ jobs' = r.jobs
  /\ UNCHANGED <<jobSteps, queueVars, stepVars, mailVars, sweepM, txVars, helpVars>>

(* The store the sweeps run against: fixture jobs, Pending or Completed, the
   job example1 leaves Processing for worker-1 and the job example10 takes
   to Completed. *)
SweepFixture(st) == ~SweepsInFlight /\ CreateJob(st)

SweepExample1 == ~SweepsInFlight /\ Example1

SweepExample10 == ~SweepsInFlight /\ Example10

NextSweep ==
  \/ \E st \in { Pending, Completed } : SweepFixture(st)
  \/ SweepExample1
  \/ SweepExample10
  \/ StartSweeps
  \/ \E w \in Sweepers : RecoverStalledJobs(w)

SpecSweep == Init /\ [][NextSweep]_vars

(* ---- idempotency keys -------------------------------------------------- *)

(* The step strings a caller passes: the workflow steps, and every string of
   at most MaxStepLen characters over a digit and the separator. *)
StepStrings ==
  { WORKFLOW_STEPS[i] : i \in 1..Len(WORKFLOW_STEPS) }
    \cup UNION { [ 1..n -> { "1", "-" } ] : n \in 0..MaxStepLen }

(* generateIdempotencyKey(jobId, step) for a job id of the store; the last
   two calls are kept. *)
GenerateKey(jobId, step) ==
  /\ LET call == [ jobId |-> jobId, step |-> step,
                   key |-> generateIdempotencyKey(jobId, step) ]
     IN keyed' = IF Len(keyed) < 2 THEN Append(keyed, call)
                 ELSE << keyed[2], call >>
  /\ UNCHANGED <<jobs, jobSteps, queueVars, stepVars, mailVars, sweepVars, txVars,
                 moreVars>>

NextKeys ==
  \E jobId \in 1..MaxKeyJobId, step \in StepStrings : GenerateKey(jobId, step)

SpecKeys == Init /\ [][NextKeys]_vars

(* ---- walking the workflow ---------------------------------------------- *)

(* getNextStep(current) for a step string a caller holds; the last two calls
   are kept. *)
GetNextStep(current) ==
  /\ LET call == [ current |-> current, next |-> getNextStep(current) ]
     IN stepped' = IF Len(stepped) < 2 THEN Append(stepped, call)
                   ELSE << stepped[2], call >>
  /\ UNCHANGED <<jobs, jobSteps, queueVars, stepVars, mailVars, sweepVars, txVars,
                 keyed, upd, cas, work>>

NextWalk == \E current \in StepStrings : GetNextStep(current)

SpecWalk == Init /\ [][NextWalk]_vars

(* ---- conditional updates ----------------------------------------------- *)

Updaters == 1..NumUpdaters

(* The filters the callers build: by status, by id, by id and status, by
   status and step. *)
FilterConditions ==
  { [ status |-> Pending ], [ status |-> Pending, currentStep |-> SendEmail ] }
    \cup { [ id |-> i ] : i \in 1..MaxJobs }
    \cup { [ id |-> i, status |-> Pending ] : i \in 1..MaxJobs }

(* The values they set: a claim, the manual reset of scenarioDuplicateDetection,
   and no value at all. *)
UpdateValues ==
  { [ status |-> Processing ], [ status |-> Pending, workerId |-> NULL ], << >> }

CasStarted == cas.target # 0

(* The rows the updates run against. *)
CasFixture(st) == ~CasStarted /\ CreateJob(st)

(* One filter(conditions).update(values) call. *)
FilterUpdate(conditions, values) ==
  /\ ~CasStarted
  /\ LET r == QuerySet_filter_update(jobs, conditions, values)
     IN /\ jobs' = r.jobs
        /\ upd' = [ conditions |-> conditions, values |-> values,
                    n |-> r.affectedRows ]
  /\ UNCHANGED <<jobSteps, queueVars, stepVars, mailVars, sweepVars, txVars, keyed,
                 stepped, cas, work>>

(* Several callers set out to run
   filter({id, status: Pending}).update({status: Processing}) on row id. *)
StartCas(id) ==
  /\ ~CasStarted
  /\ id \in JobIds
  /\ cas' = [ cas EXCEPT !.target = id, !.pending = (jobs[id].status = Pending) ]
  /\ UNCHANGED <<jobs, jobSteps, queueVars, stepVars, mailVars, sweepVars, txVars,
                 keyed, stepped, upd, work>>

(* The UPDATE statement of caller c runs: statements run one at a time, in
   any order of the callers. *)
CasUpdate(c) ==
  /\ CasStarted
  /\ cas.res[c] = -1
  /\ LET r == QuerySet_filter_update(jobs, [ id |-> cas.target, status |-> Pending ],
                                     [ status |-> Processing ])
     IN /\ jobs' = r.jobs
        /\ cas' = [ cas EXCEPT !.res[c] = r.affectedRows ]
  /\ UNCHANGED <<jobSteps, queueVars, stepVars, mailVars, sweepVars, txVars, keyed,
                 stepped, upd, work>>

NextCas ==
  \/ \E st \in { Pending, Completed } : CasFixture(st)
  \/ \E conditions \in FilterConditions, values \in UpdateValues :
       FilterUpdate(conditions, values)
  \/ \E id \in 1..MaxJobs : StartCas(id)
  \/ \E c \in Updaters : CasUpdate(c)

SpecCas == Init /\ [][NextCas]_vars

(* ---- worker loops ------------------------------------------------------ *)

Workers == 1..NumWorkers

(* The jobs the workers find: enqueued Pending jobs, and the job example1
   leaves Processing for a worker that is gone. *)
WorkEnqueue == Len(jobs) < MaxJobs /\ CreateJob(Pending)

WorkStalled == ex1.pc # "done" /\ Example1

(* One iteration of the worker loop of scenarioSlowThroughput: claimNextJob,
   then processJob on the job it returned; an error of either is caught and
   the loop goes on, iteration after iteration (counted modulo
   MaxIterations + 1). *)
WorkerIteration(w) ==
  /\ LET r == claimNextJob(jobs)
         p == processJob(r.jobs, jobSteps, r.job)
     IN IF r.st = "threw" \/ r.job = 0
        THEN jobs' = r.jobs /\ UNCHANGED jobSteps
        ELSE jobs' = p.jobs /\ jobSteps' = p.jobSteps
  /\ work' = [ work EXCEPT !.iterations[w] = (@ + 1) % (MaxIterations + 1) ]
  /\ UNCHANGED <<queueVars, stepVars, mailVars, sweepVars, txVars, keyed,
                 stepped, upd, cas>>

(* One periodic recoverStalledJobs() call; its error is caught by the caller. *)
WorkSweep ==
  /\ jobs' = recoverStalledJobs(jobs, DefaultTimeoutSeconds).jobs
  /\ work' = [ work EXCEPT !.sweeps = (@ + 1) % (MaxIterations + 1) ]
  /\ UNCHANGED <<jobSteps, queueVars, stepVars, mailVars, sweepVars, txVars, keyed,
                 stepped, upd, cas>>

NextWork ==
  \/ WorkEnqueue
  \/ WorkStalled
  \/ \E w \in Workers : WorkerIteration(w)
  \/ WorkSweep

(* The workers and the sweeps are scheduled fairly: a loop that can make its
   next iteration makes it. *)
SpecWork ==
  /\ Init
  /\ [][NextWork]_vars
  /\ \A w \in Workers : WF_vars(WorkerIteration(w))
  /\ WF_vars(WorkSweep)

(* ---- lib/database.ts: transaction() and the scripts that use it ------- *)

TxCallers == 1..NumTxCalls

(* 'worker-1', 'worker-2', ... *)
WorkerName(c) == << "worker-", c >>

(* `db.prepare('BEGIN').run()` while the connection already has a transaction
   open: SQLite refuses it, and transaction() throws before the counter is
   touched. *)
BeginRefused == transactionDepth = 0 /\ txOpen # NULL

(* transaction() up to `await callback()`: BEGIN when the counter is 0 (the
   table as it is then is what a ROLLBACK restores), then the counter goes
   up. *)
Transaction_enter ==
  /\ ~BeginRefused
  /\ transactionDepth' = transactionDepth + 1
  /\ txOpen' = IF transactionDepth = 0 THEN Some(jobs) ELSE txOpen

(* transaction() after the callback returned: the counter goes down, COMMIT
   when it is back at 0.  commitFails says that the store refuses the COMMIT:
   the statement is inside the try block, so the catch block runs, takes the
   counter down once more and, the counter not being 0, issues no ROLLBACK;
   the transaction stays open and the error is thrown on. *)
Transaction_return(commitFails) ==
  /\ commitFails => transactionDepth - 1 = 0
  /\ transactionDepth' = IF commitFails THEN transactionDepth - 2
                         ELSE transactionDepth - 1
  /\ txOpen' = IF transactionDepth - 1 = 0 /\ ~commitFails THEN NULL ELSE txOpen
  /\ UNCHANGED jobs

(* transaction() after the callback threw: the counter goes down, ROLLBACK
   when it is back at 0; the error is thrown on. *)
Transaction_throw ==
  /\ transactionDepth' = transactionDepth - 1
  /\ IF transactionDepth - 1 = 0
     THEN jobs' = txOpen[1] /\ txOpen' = NULL
     ELSE UNCHANGED <<jobs, txOpen>>

(* How far a claimJob call of example11 has come, in awaits passed. *)
Rank(pc) ==
  CASE pc = "idle" -> 0
    [] pc \in { "selected", "selectFailed" } -> 1
    [] pc \in { "updated", "updateFailed" } -> 2
    [] pc \in { "returned", "threw" } -> 3

(* Promise.all([claimJob(..), ..]): the calls are started in index order and
   their continuations run in turn, one await at a time. *)
Turn(c) ==
  /\ \A d \in TxCallers : d < c => Rank(txCall[d].pc) > Rank(txCall[c].pc)
  /\ \A d \in TxCallers : d > c => Rank(txCall[d].pc) >= Rank(txCall[c].pc)

ClaimJobsStarted == \E c \in TxCallers : txCall[c].pc # "idle"

ClaimJobsInFlight == \E c \in TxCallers : Rank(txCall[c].pc) \in { 1, 2 }

Ex3InFlight == ex3.pc \notin { "begin", "returned", "threw" }

(* example3_Transactions: one transaction() whose callback creates two jobs
   and updates the campaign; fail says that the statement of this step is
   refused by the store, which makes the callback throw. *)
Example3(fail) ==
  /\ ~ClaimJobsInFlight
  /\ \/ /\ ex3.pc = "begin"
        /\ Len(jobs) + 2 <= MaxJobs
        /\ Transaction_enter
        /\ IF fail
           THEN ex3' = [ pc |-> "failing", base |-> Len(jobs) ] /\ UNCHANGED jobs
           ELSE /\ ex3' = [ pc |-> "create2", base |-> Len(jobs) ]
                /\ jobs' = JobModel_create(jobs, Pending, SendEmail, 0)
     \/ /\ ex3.pc = "create2"
        /\ IF fail
           THEN ex3' = [ ex3 EXCEPT !.pc = "failing" ] /\ UNCHANGED jobs
           ELSE /\ ex3' = [ ex3 EXCEPT !.pc = "update" ]
                /\ jobs' = JobModel_create(jobs, Pending, SendEmail, 0)
        /\ UNCHANGED <<transactionDepth, txOpen>>
     \/ /\ ex3.pc = "update"
        /\ ex3' = [ ex3 EXCEPT !.pc = IF fail THEN "failing" ELSE "returning" ]
        /\ UNCHANGED <<jobs, transactionDepth, txOpen>>
     \/ /\ ex3.pc = "returning"
        /\ Transaction_return(fail)
        /\ ex3' = [ ex3 EXCEPT !.pc = IF fail THEN "threw" ELSE "returned" ]
     \/ /\ ex3.pc = "failing"
        /\ ~fail
        /\ Transaction_throw
        /\ ex3' = [ ex3 EXCEPT !.pc = "threw" ]
  /\ UNCHANGED <<jobSteps, queueVars, stepVars, mailVars, sweepVars, txCall, helpVars>>

(* example11_AtomicClaiming, the fixture jobs created before the claims. *)
Ex11CreateJob ==
  /\ ~ClaimJobsStarted
  /\ ~Ex3InFlight
  /\ CreateJob(Pending)

(* claimJob(workerId) up to its first await: transaction() is entered and the
   callback's SELECT of the oldest Pending job runs; the call keeps the Job
   object the SELECT returned (its id and its workerId as read). *)
ClaimJob_begin(c, fail) ==
  /\ txCall[c].pc = "idle"
  /\ Turn(c)
  /\ ~Ex3InFlight
  /\ IF BeginRefused
     THEN /\ ~fail
          /\ txCall' = [ txCall EXCEPT ![c].pc = "threw" ]
          /\ UNCHANGED <<transactionDepth, txOpen>>
     ELSE /\ Transaction_enter
          /\ txCall' = [ txCall EXCEPT ![c] =
                IF fail \/ OldestPending = 0
                THEN [ pc |-> IF fail THEN "selectFailed" ELSE "selected",
                       job |-> 0, workerId |-> NULL ]
                ELSE [ pc |-> "selected", job |-> OldestPending,
                       workerId |-> jobs[OldestPending].workerId ] ]
  /\ UNCHANGED <<jobs, jobSteps, queueVars, stepVars, mailVars, sweepVars, ex3, helpVars>>

(* The callback after the SELECT: if it read a job, the UPDATE by id to
   Processing with this caller's workerId; otherwise it returns null. *)
ClaimJob_update(c, fail) ==
  /\ txCall[c].pc = "selected"
  /\ Turn(c)
  /\ IF txCall[c].job = 0
     THEN /\ ~fail
          /\ txCall' = [ txCall EXCEPT ![c].pc = "updated" ]
          /\ UNCHANGED jobs
     ELSE IF fail
     THEN /\ txCall' = [ txCall EXCEPT ![c].pc = "updateFailed" ]
          /\ UNCHANGED jobs
     ELSE /\ txCall' = [ txCall EXCEPT ![c].pc = "updated" ]
          /\ jobs' = QuerySet_update(jobs, txCall[c].job,
                        [ status |-> Processing, workerId |-> Some(WorkerName(c)) ])
  /\ UNCHANGED <<jobSteps, queueVars, stepVars, mailVars, sweepVars,
                 transactionDepth, txOpen, ex3, helpVars>>

(* transaction() after the callback of claimJob returned or threw. *)
ClaimJob_finish(c, fail) ==
  /\ Turn(c)
  /\ \/ /\ txCall[c].pc = "updated"
        /\ Transaction_return(fail)
        /\ txCall' = [ txCall EXCEPT ![c].pc = IF fail THEN "threw" ELSE "returned" ]
     \/ /\ txCall[c].pc \in { "selectFailed", "updateFailed" }
        /\ ~fail
        /\ Transaction_throw
        /\ txCall' = [ txCall EXCEPT ![c].pc = "threw" ]
  /\ UNCHANGED <<jobSteps, queueVars, stepVars, mailVars, sweepVars, ex3, helpVars>>

NextTx ==
  \/ \E fail \in BOOLEAN : Example3(fail)
  \/ Ex11CreateJob
  \/ \E c \in TxCallers, fail \in BOOLEAN : ClaimJob_begin(c, fail)
  \/ \E c \in TxCallers, fail \in BOOLEAN : ClaimJob_update(c, fail)
  \/ \E c \in TxCallers, fail \in BOOLEAN : ClaimJob_finish(c, fail)

SpecTx == Init /\ [][NextTx]_vars

TypeOK ==
  /\ Len(jobs) <= MaxJobs
  /\ \A r \in BagToSet(jobSteps) : r.stepName \in JobStepNames

(* ---- properties -------------------------------------------------------- *)

Min(a, b) == IF a <= b THEN a ELSE b

ClaimsDone == \A c \in Callers : claim[c].st \in { "job", "null", "threw" }

Returned == { c \in Callers : claim[c].st = "job" }

(* C1: of N concurrent claimNextJob calls against M eligible jobs exactly
   min(N, M) return a job, the others return none, and the returned jobs are
   pairwise distinct.  The source's claimNextJob throws from every call. *)
C1_ConcurrentClaims ==
  ClaimsDone =>
    /\ Cardinality(Returned) = Min(NumCallers, claimM)
    /\ \A c \in Callers \ Returned : claim[c].st = "null"
    /\ \A c, d \in Returned : claim[c].job = claim[d].job => c = d

(* C3: in every state workerId is non-null exactly when status is Processing,
   and a claim (a claimNextJob call finishing while a job is Pending) sets
   it: it moves a Pending job to Processing with workerId set.  The source's
   claimNextJob leaves every row as it was. *)
C3_WorkerIdIffProcessing ==
  [][ /\ \A j \in DOMAIN jobs' :
           (jobs'[j].workerId # NULL) <=> (jobs'[j].status = Processing)
      /\ \A c \in Callers :
           (claim[c].st = "calling" /\ claim'[c].st # "calling" /\ PendingCount > 0)
             => \E j \in JobIds :
                  /\ jobs[j].status = Pending
                  /\ jobs'[j].status = Processing
                  /\ jobs'[j].workerId # NULL ]_vars

UniqueLedger(ss) ==
  \A j \in 1..MaxJobs, s \in JobStepNames : StepCount(ss, j, s) <= 1

(* A step that is an insert into job_steps for (j, s): by any caller, or by
   the ledger writes of example10. *)
InsertAttempt(j, s) ==
  \/ JobStepModel_create(j, s)
  \/ /\ ex10.job = j
     /\ \/ ex10.pc = "record1" /\ s = SendEmail
        \/ ex10.pc = "record2" /\ s = Analyze
        \/ ex10.pc = "record3" /\ s = TakeAction
     /\ Example10

(* C5: job_steps never holds two rows of one (job, step); an insert for a
   pair that already has a row raises UNIQUE_VIOLATION and leaves the table
   as it was. *)
C5_LedgerUnique ==
  [][ /\ UniqueLedger(jobSteps')
      /\ \A j \in 1..MaxJobs, s \in JobStepNames :
           (HasStep(jobSteps, j, s) /\ InsertAttempt(j, s))
             => (jobSteps' = jobSteps /\ ret' = "UNIQUE_VIOLATION") ]_vars

(* A duplicate insert was rejected while two jobs have ledger rows. *)
C5_Witness ==
  /\ ret = "UNIQUE_VIOLATION"
  /\ \E j, k \in JobIds : j # k /\ StepRowsOf(jobSteps, j) > 0 /\ StepRowsOf(jobSteps, k) > 0

DrivenFromStart ==
  /\ proc.job # 0
  /\ proc.snap.currentStep = SendEmail
  /\ proc.snap.status \in { Pending, Processing }

(* C7: a job driven from send_email by successive processJob calls is
   Pending at analyze after the first call, Pending at take_action after the
   second, and Completed with exactly three ledger rows after the third and
   after any further call.  The source's processJob throws and changes
   nothing. *)
C7_FullWorkflow ==
  DrivenFromStart =>
    /\ Len(proc.log) = 1 =>
         jobs[proc.job].status = Pending /\ jobs[proc.job].currentStep = Analyze
    /\ Len(proc.log) = 2 =>
         jobs[proc.job].status = Pending /\ jobs[proc.job].currentStep = TakeAction
    /\ Len(proc.log) >= 3 =>
         jobs[proc.job].status = Completed /\ StepRowsOf(jobSteps, proc.job) = 3

(* C8: a job's currentStep changes only from send_email to analyze and from
   analyze to take_action, and a job becomes Completed only once its
   take_action step is on record. *)
C8_StepsForward ==
  [][ \A j \in JobIds :
        /\ jobs'[j].currentStep # jobs[j].currentStep =>
             \/ jobs[j].currentStep = SendEmail /\ jobs'[j].currentStep = Analyze
             \/ jobs[j].currentStep = Analyze /\ jobs'[j].currentStep = TakeAction
        /\ (jobs[j].status # Completed /\ jobs'[j].status = Completed) =>
             HasStep(jobSteps, j, TakeAction) ]_vars

(* example10 has advanced its job past send_email and completed it. *)
C8_Witness ==
  /\ ex10.pc = "done"
  /\ jobs[ex10.job].currentStep = Analyze
  /\ jobs[ex10.job].status = Completed

(* C9: three processJob calls on the same job all finish without raising,
   the step is advanced at most once and has at most one ledger row.  The
   source's processJob raises from every call. *)
C9_ConcurrentProcess ==
  (proc.job # 0 /\ Len(proc.log) >= 3) =>
    /\ \A i \in 1..3 : proc.log[i] # "threw"
    /\ StepCount(jobSteps, proc.job, proc.snap.currentStep) <= 1
    /\ \/ jobs[proc.job].currentStep = proc.snap.currentStep
       \/ jobs[proc.job].currentStep = proc.snap.currentStep + 1

(* A claimNextJob call of caller c finishes in this step. *)
ClaimFinishes(c) == claim[c].st = "calling" /\ claim'[c].st # "calling"

(* C11: a claimNextJob call that runs while some job is Pending returns the
   oldest Pending job (smallest createdAt, then smallest id).  The source's
   claimNextJob returns no job: it throws. *)
C11_OldestFirst ==
  [][ \A c \in Callers :
        (ClaimFinishes(c) /\ PendingCount > 0)
          => (claim'[c].st = "job" /\ claim'[c].job = OldestPending) ]_vars

(* C12: a claimNextJob call that runs while no job is Pending returns null
   without raising and leaves every job row as it was.  The source's
   claimNextJob raises 'Not implemented'. *)
C12_NoJobReturnsNull ==
  [][ \A c \in Callers :
        (ClaimFinishes(c) /\ PendingCount = 0)
          => (claim'[c].st = "null" /\ jobs' = jobs) ]_vars

(* The classes of error the retry classifier calls transient. *)
Retryable == { e \in ErrorClasses : isTransientError(NewError(e)) }

(* C14: sendEmailStep on a job whose address the mail API rejects as invalid
   returns false and leaves the job Failed with an errorMessage and no
   workerId, whatever its retryCount, and writes no ledger row.  The source's
   sendEmailStep throws and leaves the job Pending. *)
C14_InvalidAddressFails ==
  [][ \A j \in 1..MaxJobs :
        SendEmailStep(j, "InvalidEmailError")
          => /\ send'.st = "false"
             /\ jobs'[j].status = Failed
             /\ jobs'[j].errorMessage # NULL
             /\ jobs'[j].workerId = NULL
             /\ jobSteps' = jobSteps ]_vars

(* C15: isTransientError answers true exactly for RateLimitError and
   TimeoutError, isPermanentError exactly for InvalidEmailError, for every
   error a caller of the external APIs classifies. *)
C15_Classifier ==
  /\ cls.transient <=> cls.class \in { "RateLimitError", "TimeoutError" }
  /\ cls.permanent <=> cls.class = "InvalidEmailError"

(* A timeout thrown by sendEmail was classified while another call had been
   rejected for its address. *)
C15_Witness ==
  /\ cls.class = "TimeoutError"
  /\ cls.transient
  /\ \E c \in MailCallers : mail[c].pc = "threw" /\ mail[c].res = "TimeoutError"
  /\ \E c \in MailCallers : mail[c].pc = "threw" /\ mail[c].res = "InvalidEmailError"

(* C16: sendEmailStep meeting a transient failure on a job below the retry
   ceiling adds one to retryCount, keeps currentStep, returns the job to
   Pending with no workerId and writes no ledger row.  The source's
   sendEmailStep throws and leaves retryCount as it was. *)
C16_RetryRequeues ==
  [][ \A j \in 1..MaxJobs, m \in Retryable :
        (SendEmailStep(j, m) /\ jobs[j].retryCount < HighRetryCount)
          => /\ jobs'[j].retryCount = jobs[j].retryCount + 1
             /\ jobs'[j].currentStep = jobs[j].currentStep
             /\ jobs'[j].status = Pending
             /\ jobs'[j].workerId = NULL
             /\ jobSteps' = jobSteps ]_vars

(* C17: sendEmailStep meeting a transient failure on a job whose retryCount
   is at the ceiling returns false and leaves the job Failed, its retryCount
   not raised.  The source's sendEmailStep throws and leaves the job
   Pending. *)
C17_CeilingFails ==
  [][ \A j \in 1..MaxJobs, m \in Retryable :
        (SendEmailStep(j, m) /\ jobs[j].retryCount >= HighRetryCount)
          => /\ send'.st = "false"
             /\ jobs'[j].status = Failed
             /\ jobs'[j].retryCount <= HighRetryCount ]_vars

(* A processJob call on job j runs in this step. *)
ProcessJobRuns(j) ==
  /\ proc'.job = j
  /\ Len(proc'.log) = Len(proc.log) + 1

(* C19: a processJob call on a job at a non-terminal step leaves it Pending
   at the next step with no workerId; on a job at take_action it leaves it
   Completed with completedAt set.  The source's processJob throws and
   leaves the row as it was. *)
C19_EndOfStep ==
  [][ \A j \in JobIds :
        (ProcessJobRuns(j) /\ jobs[j].status \in { Pending, Processing })
          => IF jobs[j].currentStep = TakeAction
             THEN /\ jobs'[j].status = Completed
                  /\ jobs'[j].completedAt # NULL
             ELSE /\ jobs'[j].status = Pending
                  /\ jobs'[j].currentStep = jobs[j].currentStep + 1
                  /\ jobs'[j].workerId = NULL ]_vars

(* C20: createCampaignJobs with K addresses returns K and appends K rows,
   one per input position, each Pending at send_email with retryCount 0;
   with no address it returns 0 and leaves the store alone.  The source's
   createCampaignJobs throws for every input. *)
C20_BulkCreate ==
  [][ \A emails \in EmailLists :
        CreateCampaignJobs(emails)
          => /\ bulk'.st = "returned"
             /\ bulk'.count = Len(emails)
             /\ Len(jobs') = Len(jobs) + Len(emails)
             /\ \A i \in 1..Len(emails) :
                  jobs'[Len(jobs) + i] = JobRow(emails[i], Pending, SendEmail, 0)
             /\ \A j \in JobIds : jobs'[j] = jobs[j] ]_vars

(* A recoverStalledJobs call of sweeper w finishes in this step. *)
SweepFinishes(w) == sweep[w].st = "calling" /\ sweep'[w].st # "calling"

(* What a recovery pass makes of a row: a stalled row goes back to Pending
   with workerId, startedAt and lastHeartbeat cleared. *)
ResetRow(row) ==
  [ row EXCEPT !.status = Pending, !.workerId = NULL,
               !.startedAt = NULL, !.lastHeartbeat = NULL ]

(* C22: a recoverStalledJobs call returns the number of stalled jobs (0 when
   none is stalled), resets exactly those to Pending with workerId,
   startedAt and lastHeartbeat cleared, and leaves every other job,
   a Processing job with a fresh lease included, as it was.  The source's
   recoverStalledJobs raises 'Not implemented' and returns no number. *)
C22_RecoverResets ==
  [][ \A w \in Sweepers :
        SweepFinishes(w)
          => /\ sweep'[w].st = "returned"
             /\ sweep'[w].count = Cardinality(Stalled(jobs))
             /\ \A j \in JobIds :
                  jobs'[j] = IF j \in Stalled(jobs) THEN ResetRow(jobs[j])
                             ELSE jobs[j] ]_vars

SweepsDone == \A w \in Sweepers : sweep[w].st \in { "returned", "threw" }

RECURSIVE SumCounts(_)
SumCounts(W) ==
  IF W = {} THEN 0
  ELSE LET w == CHOOSE x \in W : TRUE
       IN sweep[w].count + SumCounts(W \ { w })

(* C24: when the sweepers started together have all finished, each has
   returned a count and the counts add up to the number of jobs that were
   stalled when they started.  In the source every sweeper raises and none
   returns a count. *)
C24_ConcurrentSweeps ==
  SweepsDone =>
    /\ \A w \in Sweepers : sweep[w].st = "returned"
    /\ SumCounts(Sweepers) = sweepM

(* The transaction() call of example3 finishes in this step. *)
Ex3Finishes == ex3.pc \in { "returning", "failing" } /\ ex3'.pc \in { "returned", "threw" }

ClaimJobsDone == \A c \in TxCallers : Rank(txCall[c].pc) = 3

(* C27: transaction() commits when its callback returns and rolls back when
   it throws: after example3's call returned, both of its rows are in the
   table; after it threw, the table is as it was before the call; and once
   the claimJob calls of example11 are over, every job a call that returned
   had updated is still Processing.  In the source a callback that returned
   while another call was in flight loses its write when that other call
   throws last. *)
C27_CommitOrRollback ==
  [][ /\ Ex3Finishes =>
           IF ex3'.pc = "returned"
           THEN /\ Len(jobs') = ex3.base + 2
                /\ \A j \in 1..ex3.base : jobs'[j] = jobs[j]
           ELSE jobs' = SubSeq(jobs, 1, ex3.base)
      /\ ClaimJobsDone' =>
           \A c \in TxCallers :
             (txCall'[c].pc = "returned" /\ txCall'[c].job # 0)
               => jobs'[txCall'[c].job].status = Processing ]_vars

(* The sendEmail calls that delivered a message under key k. *)
Deliveries(k) == { c \in MailCallers : mail[c].pc = "sent" /\ mail[c].key = k }

(* C28: for every idempotency key at most one sendEmail call delivers a
   message, and every call answered from the cache returns the message id of
   that delivery.  In the source two calls with the same key that are both
   past the cache check before either has sent deliver twice. *)
C28_OneDeliveryPerKey ==
  \A k \in MailKeys :
    /\ Cardinality(Deliveries(k)) <= 1
    /\ \A c \in MailCallers :
         (mail[c].pc = "cached" /\ mail[c].key = k)
           => \E d \in Deliveries(k) : mail[d].res = mail[c].res

(* C29: two generateIdempotencyKey calls return the same key exactly when
   they were given the same job id and the same step. *)
C29_KeyInjective ==
  Len(keyed) = 2 =>
    ( (keyed[1].key = keyed[2].key)
        <=> (keyed[1].jobId = keyed[2].jobId /\ keyed[1].step = keyed[2].step) )

(* Two different (job id, step) pairs whose digits and step read the same
   once run together (1 with '1...' and 11), and their two keys. *)
C29_Witness ==
  /\ Len(keyed) = 2
  /\ keyed[1].jobId # keyed[2].jobId
  /\ StringOf(keyed[1].jobId) \o keyed[1].step = StringOf(keyed[2].jobId) \o keyed[2].step
  /\ keyed[1].key # keyed[2].key

(* The claimJob calls of example11 that returned a Job object. *)
ClaimedBy == { c \in TxCallers : txCall[c].pc = "returned" /\ txCall[c].job # 0 }

(* C31: the claimJob calls of example11 started together claim pairwise
   distinct jobs, and the job each call returns carries the workerId of that
   call.  In the source every call runs its SELECT before any call runs its
   UPDATE, so the calls read the same job, and the object a call returns is
   the row as the SELECT read it. *)
C31_DistinctClaims ==
  ClaimJobsDone =>
    /\ \A c, d \in ClaimedBy : txCall[c].job = txCall[d].job => c = d
    /\ \A c \in ClaimedBy : txCall[c].workerId = Some(WorkerName(c))

(* C32: overlapping transaction() calls keep their own outcomes: once the
   claimJob calls are over, no row carries a write of a call that threw, and
   the row a call that returned had updated is still Processing.  In the
   source the calls share one BEGIN; the call that brings the counter back to
   0 decides for all of them. *)
C32_OverlapOutcomes ==
  ClaimJobsDone =>
    \A c \in TxCallers :
      /\ txCall[c].pc = "threw" =>
           \A j \in JobIds : jobs[j].workerId # Some(WorkerName(c))
      /\ c \in ClaimedBy => jobs[txCall[c].job].status = Processing

(* The transaction() calls between their BEGIN check and their COMMIT or
   ROLLBACK check. *)
CallsInFlight ==
  (IF Ex3InFlight THEN 1 ELSE 0)
    + Cardinality({ c \in TxCallers : Rank(txCall[c].pc) \in { 1, 2 } })

(* C33: transactionDepth is never negative and equals the number of
   transaction() calls in flight; with no call in flight it is 0 and no
   transaction is left open (every BEGIN got its COMMIT or ROLLBACK), also
   after a COMMIT that failed.  In the source a failing COMMIT takes the
   counter down a second time and no ROLLBACK is issued. *)
C33_DepthCountsCalls ==
  /\ transactionDepth >= 0
  /\ transactionDepth = CallsInFlight
  /\ CallsInFlight = 0 => txOpen = NULL

(* C34: getNextStep returns 'analyze' for 'send_email', 'take_action' for
   'analyze', and null for 'take_action' and for every string that is not a
   workflow step; it never returns its own argument or an earlier step. *)
C34_NextStep ==
  LET send_email == << "s", "e", "n", "d", "_", "e", "m", "a", "i", "l" >>
      analyze == << "a", "n", "a", "l", "y", "z", "e" >>
      take_action == << "t", "a", "k", "e", "_", "a", "c", "t", "i", "o", "n" >>
      order == << send_email, analyze, take_action >>
  IN \A n \in 1..Len(stepped) :
       LET call == stepped[n]
       IN /\ call.current = send_email => call.next = Some(analyze)
          /\ call.current = analyze => call.next = Some(take_action)
          /\ call.current \notin { send_email, analyze } => call.next = NULL
          /\ call.next # Some(call.current)
          /\ \A i, k \in 1..3 :
               (call.current = order[i] /\ call.next = Some(order[k])) => i < k

(* A caller walked from 'send_email' to the step after the next one. *)
C34_Witness ==
  /\ Len(stepped) = 2
  /\ stepped[1].current = WORKFLOW_STEPS[1]
  /\ stepped[1].next = Some(stepped[2].current)
  /\ stepped[2].next = Some(WORKFLOW_STEPS[3])

(* The errors the external APIs raise. *)
CollaboratorErrors ==
  { "RateLimitError", "TimeoutError", "InvalidEmailError", "SendGridError",
    "SalesforceError", "SentimentAPIError" }

(* C35, as stated: for every error a collaborator can raise exactly one of
   isTransientError and isPermanentError is true. *)
C35_ExactlyOne ==
  cls.class \in CollaboratorErrors => (cls.transient <=> ~cls.permanent)

(* C35, amended: the two predicates are never both true, and one of them is
   true exactly for RateLimitError, TimeoutError and InvalidEmailError; for a
   generic SendGridError, a SalesforceError and a SentimentAPIError both are
   false. *)
C35_ExclusiveNotTotal ==
  cls.class \in CollaboratorErrors =>
    /\ ~(cls.transient /\ cls.permanent)
    /\ (cls.transient \/ cls.permanent)
         <=> cls.class \in { "RateLimitError", "TimeoutError", "InvalidEmailError" }

(* An internal error thrown by sendEmail was classified: neither transient
   nor permanent. *)
C35_Witness ==
  /\ cls.class = "SendGridError"
  /\ ~cls.transient
  /\ ~cls.permanent
  /\ \E c \in MailCallers : mail[c].pc = "threw" /\ mail[c].res = "SendGridError"

(* C36: a sendEmail call that fails records nothing in the idempotency cache;
   the cache changes only when a call has sent, and then holds that call's
   message id under its key; and a call whose key no call has sent under is
   not answered from the cache but makes a real send attempt. *)
C36_FailureCachesNothing ==
  [][ /\ \A c \in MailCallers :
           /\ (mail[c].pc = "sleeping" /\ mail'[c].pc = "threw") => cache' = cache
           /\ (mail[c].pc = "sleeping" /\ mail'[c].pc = "sent")
                => cache' = [ cache EXCEPT ![mail[c].key] = mail'[c].res ]
           /\ (mail[c].pc = "idle" /\ mail'[c].pc # "idle"
                 /\ Deliveries(mail'[c].key) = {})
                => mail'[c].pc = "sleeping"
      /\ cache' # cache
           => \E c \in MailCallers : mail[c].pc = "sleeping" /\ mail'[c].pc = "sent" ]_vars

(* A call failed, and a later call with the same key was sent and cached. *)
C36_Witness ==
  \E c, d \in MailCallers :
    /\ c < d
    /\ mail[c].pc = "threw"
    /\ mail[d].key = mail[c].key
    /\ mail[d].pc = "sent"
    /\ cache[mail[d].key] = mail[d].res

(* C38: under fair scheduling of the workers and the recovery sweeps every
   enqueued job eventually is Completed or Failed and stays so.  In the
   source claimNextJob, processJob and recoverStalledJobs throw, the loops
   catch the error and go on, and no row ever changes: a Pending job stays
   Pending. *)
C38_EveryJobFinishes ==
  \A j \in 1..MaxJobs :
    (j \in JobIds) ~> [](j \in JobIds /\ jobs[j].status \in { Completed, Failed })

(* The row j satisfies every condition of the filter. *)
Satisfies(j, conditions) ==
  /\ "id" \in DOMAIN conditions => j = conditions.id
  /\ "status" \in DOMAIN conditions => jobs[j].status = conditions.status
  /\ "currentStep" \in DOMAIN conditions => jobs[j].currentStep = conditions.currentStep

(* The callers of the concurrent conditional update that got 1. *)
CasWinners == { c \in Updaters : cas.res[c] = 1 }

(* C39: filter(conditions).update(values) sets the given columns in exactly
   the rows that satisfy all conditions when the statement runs, leaves every
   other row and column alone and returns the number of those rows (with no
   value to set it runs no statement and returns 0); and when
   several callers run filter({id, status: Pending}).update({status:
   Processing}) on one Pending row, exactly one gets 1 and the others 0. *)
C39_ConditionalUpdate ==
  [][ /\ \A conditions \in FilterConditions, values \in UpdateValues \ { << >> } :
           FilterUpdate(conditions, values) =>
             /\ upd'.n = Cardinality({ j \in JobIds : Satisfies(j, conditions) })
             /\ DOMAIN jobs' = DOMAIN jobs
             /\ \A j \in JobIds :
                  IF Satisfies(j, conditions)
                  THEN \A f \in DOMAIN jobs[j] :
                         jobs'[j][f] = IF f \in DOMAIN values THEN values[f]
                                       ELSE jobs[j][f]
                  ELSE jobs'[j] = jobs[j]
      /\ \A conditions \in FilterConditions :
           FilterUpdate(conditions, << >>) => (upd'.n = 0 /\ jobs' = jobs)
      /\ \A c \in Updaters :
           (cas.res[c] = -1 /\ cas'.res[c] # -1) =>
             /\ cas'.res[c] = IF jobs[cas.target].status = Pending THEN 1 ELSE 0
             /\ cas'.res[c] = 1 => jobs'[cas.target].status = Processing
             /\ cas'.res[c] = 0 => jobs' = jobs
      /\ (\A c \in Updaters : cas'.res[c] # -1) =>
           /\ \A c \in Updaters : cas'.res[c] \in { 0, 1 }
           /\ Cardinality({ c \in Updaters : cas'.res[c] = 1 })
                = IF cas'.pending THEN 1 ELSE 0 ]_vars

(* All callers have run their update on a row that was Pending: one got 1,
   the row is Processing. *)
C39_Witness ==
  /\ cas.pending
  /\ \A c \in Updaters : cas.res[c] # -1
  /\ Cardinality(CasWinners) = 1
  /\ jobs[cas.target].status = Processing
  /\ upd.n = 2
====
